---------------------------- MODULE Spec2Model ----------------------------
(***************************************************************************)
(* Model of src/main.py: a Streamlit page that loads a regression model    *)
(* through the memoised load_model('modelo.joblib'), reads three sliders   *)
(* and, when the submit button was pressed, predicts on a one-row frame.   *)
(*                                                                         *)
(* Streamlit executes the whole script top to bottom once per user event   *)
(* (a "script run"), one thread per browser session.  pc[s] is the         *)
(* position of session s inside its current run; "idle" means the run is   *)
(* over and the page waits for the next user event.                        *)
(*                                                                         *)
(* Slider values are the source's floats scaled by 100000 so that they are *)
(* exact integers.                                                          *)
(***************************************************************************)
EXTENDS Integers, Sequences, FiniteSets

VARIABLES
    file,       \* per path, what is on disk: "valid", "missing", "corrupt"
    fitted,     \* behaviour of the deserialized model's predict
    active,     \* the browser sessions that exist
    cache,      \* st.cache_resource store of load_model, keyed by path
    lock,       \* holders of the cache's per-key compute lock
    loadCount,  \* number of joblib.load calls per path
    pc,         \* per session: position in the script run
    runs,       \* per session: script runs started
    arg,        \* per session: the path this run passes to load_model
    pressed,    \* per session: st.button returns True in this run
    slider,     \* per session: widget state of the three sliders
    model,      \* per session: the script variable `model`
    inp,        \* per session: the script variables iron, air, amina
    row,        \* per session: df_input
    invoked,    \* per session: model.predict was called in this run
    raised,     \* per session: the exception raised in this run ("" if none)
    errText,    \* per session: the cause text shown by st.error at line 106
    before,     \* per session: sliders and cache entry as the run started
    page        \* per session: the elements rendered by this run

vars == <<file, fitted, active, cache, lock, loadCount, pc, runs, arg, pressed,
          slider, model, inp, row, invoked, raised, errText, before, page>>

-----------------------------------------------------------------------------
(* Bounds of the model *)

MaxRuns == 5        \* script runs per session (single-session specification)
MaxStep == 1        \* slider positions min + k*step, k in 0..MaxStep
MaxConcRuns == 2    \* script runs per session (concurrent specification)
MaxPathRuns == 3    \* load_model calls (specification over several paths)

-----------------------------------------------------------------------------
(* Program constants (floats scaled by 100000) *)

IronMin == 6205000
IronMax == 6801000
IronDefault == 6500000
AirMin == 17584734
AirMax == 37244264
AirDefault == 20000000
AminaMin == 24170237
AminaMax == 73930400
AminaDefault == 35000000
Step == 10000

ModelPath == "modelo.joblib"
OtherPath == "otro.joblib"
Paths == {ModelPath, OtherPath}
Sessions == {1, 2}

Columns == <<"% Iron Concentrate", "Flotation Column 01 Air Flow", "Amina Flow">>

Positions(lo, hi, default) ==
    {default} \cup {v \in {lo + k * Step : k \in 0..MaxStep} : v <= hi}

IronValues == Positions(IronMin, IronMax, IronDefault)
AirValues == Positions(AirMin, AirMax, AirDefault)
AminaValues == Positions(AminaMin, AminaMax, AminaDefault)

SliderDefaults == [iron |-> IronDefault, air |-> AirDefault, amina |-> AminaDefault]

-----------------------------------------------------------------------------
(* Values *)

\* The object a load of path p returns is identified by p and by the number
\* of the joblib.load call that created it.
Unset == [kind |-> "unset", path |-> "", id |-> 0]
None == [kind |-> "none", path |-> "", id |-> 0]
Handle(p, n) == [kind |-> "handle", path |-> p, id |-> n]

Absent == [hit |-> FALSE, value |-> Unset]
Entry(v) == [hit |-> TRUE, value |-> v]

NoRow == [vals |-> << >>, cols |-> << >>]

\* raised[s]: where in the script the exception came from, and what it is.
NoExc == [at |-> "", exc |-> ""]
Exc(at, e) == [at |-> at, exc |-> e]

Upd(f, s, v) == [f EXCEPT ![s] = v]


-----------------------------------------------------------------------------
(* Initial states *)

\* The artifact on disk and the behaviour of the model inside it are inputs of
\* the program; they do not change during the life of the process.
\*   fitted = "ok"       predict returns a sequence of one float
\*   fitted = "raises"   predict raises (e.g. feature mismatch inside the model)
\*   fitted = "badshape" predict returns something `[0]:.2f` cannot format
InitWith(sessions, paths) ==
    /\ file \in [Paths -> {"valid", "missing", "corrupt"}]
    /\ \A p \in Paths \ paths : file[p] = "missing"
    /\ fitted \in {"ok", "raises", "badshape"}
    /\ ((\A p \in Paths : file[p] = "corrupt") => fitted = "ok")
    /\ active = sessions
    /\ cache = [p \in Paths |-> Absent]
    /\ lock = [p \in Paths |-> {}]
    /\ loadCount = [p \in Paths |-> 0]
    /\ pc = [s \in Sessions |-> "idle"]
    /\ runs = [s \in Sessions |-> 0]
    /\ arg = [s \in Sessions |-> ModelPath]
    /\ pressed = [s \in Sessions |-> FALSE]
    /\ slider = [s \in Sessions |-> SliderDefaults]
    /\ model = [s \in Sessions |-> Unset]
    /\ inp = [s \in Sessions |-> SliderDefaults]
    /\ row = [s \in Sessions |-> NoRow]
    /\ invoked = [s \in Sessions |-> FALSE]
    /\ raised = [s \in Sessions |-> NoExc]
    /\ errText = [s \in Sessions |-> ""]
    /\ before = [s \in Sessions |-> [slider |-> SliderDefaults, cache |-> Absent]]
    /\ page = [s \in Sessions |-> {}]

\* The script as written: one session, load_model('modelo.joblib').
Init == InitWith({1}, {ModelPath})

InitConc == InitWith(Sessions, {ModelPath})

\* load_model exercised with several paths.
InitPaths == InitWith({1}, Paths)

-----------------------------------------------------------------------------
(* User events: each one starts a script run from the top of the file *)

\* A script run starts with a fresh namespace and an empty page; the widget
\* state (slider) and the process-wide cache survive.
StartRunWith(s, press, limit, p) ==
    /\ s \in active
    /\ pc[s] = "idle"
    /\ runs[s] < limit
    /\ arg' = Upd(arg, s, p)
    /\ pc' = Upd(pc, s, "load")
    /\ runs' = Upd(runs, s, runs[s] + 1)
    /\ pressed' = Upd(pressed, s, press)
    /\ model' = Upd(model, s, Unset)
    /\ inp' = Upd(inp, s, SliderDefaults)
    /\ row' = Upd(row, s, NoRow)
    /\ invoked' = Upd(invoked, s, FALSE)
    /\ raised' = Upd(raised, s, NoExc)
    /\ errText' = Upd(errText, s, "")
    /\ before' = Upd(before, s, [slider |-> slider'[s], cache |-> cache[p]])
    /\ page' = Upd(page, s, {})
    /\ UNCHANGED <<file, fitted, active, cache, lock, loadCount>>

\* Line 28: the script passes 'modelo.joblib'.
StartRun(s, press, limit) == StartRunWith(s, press, limit, ModelPath)

\* The browser opens the page: the first run of the session.
OpenPage(s, limit) ==
    /\ runs[s] = 0
    /\ UNCHANGED slider
    /\ StartRun(s, FALSE, limit)

\* "Rerun" from the app menu: a run with no widget changed.
Rerun(s, limit) ==
    /\ runs[s] > 0
    /\ UNCHANGED slider
    /\ StartRun(s, FALSE, limit)

\* The user moves one of the three sliders shown by the last run.
MoveSlider(s, limit) ==
    /\ "sidebar" \in page[s]
    /\ \E v \in [iron : IronValues, air : AirValues, amina : AminaValues] :
          /\ Cardinality({f \in {"iron", "air", "amina"} : v[f] # slider[s][f]}) = 1
          /\ slider' = Upd(slider, s, v)
    /\ StartRun(s, FALSE, limit)

\* The user presses the submit button shown by the last run.
PressButton(s, limit) ==
    /\ "button" \in page[s]
    /\ UNCHANGED slider
    /\ StartRun(s, TRUE, limit)

\* A run of the script with load_model called on any path p.
RunWithPath(s, limit) ==
    /\ UNCHANGED slider
    /\ \E p \in Paths : StartRunWith(s, FALSE, limit, p)

\* The artifact is put in place while the process runs.
FileAppears ==
    /\ file[ModelPath] = "missing"
    /\ file' = Upd(file, ModelPath, "valid")
    /\ UNCHANGED <<fitted, active, cache, lock, loadCount, pc, runs, arg, pressed,
                   slider, model, inp, row, invoked, raised, errText, before, page>>

-----------------------------------------------------------------------------
(* load_model, lines 17-28 *)

Show(s, elems) == page' = Upd(page, s, page[s] \cup elems)

\* The run of session s ends with an uncaught exception e: Streamlit replaces
\* nothing already rendered, shows the traceback and skips the rest of the script.
Uncaught(s, at, e) ==
    /\ raised' = Upd(raised, s, Exc(at, e))
    /\ Show(s, {"uncaught"})
    /\ pc' = Upd(pc, s, "idle")

\* Mutant of Cached: the store forgets the key and answers with any entry.
CachedAny(p) ==
    IF \E q \in Paths : cache[q].hit
       THEN cache[CHOOSE q \in Paths : cache[q].hit]
       ELSE Absent

\* @st.cache_resource keys its store by the function's argument.
Cached(p) == cache[p]

\* `model = <cached value>` at line 28.  A cached None also replays the
\* st.error element recorded when the function body ran.
UseCached(s, p) ==
    /\ model' = Upd(model, s, Cached(p).value)
    /\ Show(s, IF Cached(p).value = None THEN {"load_error"} ELSE {})
    /\ pc' = Upd(pc, s, "sidebar")

\* @st.cache_resource, first look-up (no lock held): a hit returns the cached
\* value, a miss goes on to take the compute lock of the key.
CacheLookup(s) ==
    /\ s \in active
    /\ pc[s] = "load"
    /\ IF Cached(arg[s]).hit
          THEN /\ UseCached(s, arg[s])
               /\ UNCHANGED raised
          ELSE /\ pc' = Upd(pc, s, "wait")
               /\ UNCHANGED <<model, page, raised>>
    /\ UNCHANGED <<file, fitted, active, cache, lock, loadCount, runs, arg, pressed,
                   slider, inp, row, invoked, errText, before>>

\* @st.cache_resource, second look-up under the compute lock of the key: a hit
\* means another session computed the value meanwhile.
AcquireLock(s) ==
    /\ s \in active
    /\ pc[s] = "wait"
    /\ lock[arg[s]] = {}
    /\ IF Cached(arg[s]).hit
          THEN /\ UseCached(s, arg[s])
               /\ UNCHANGED lock
          ELSE /\ lock' = Upd(lock, arg[s], {s})
               /\ pc' = Upd(pc, s, "locked")
               /\ UNCHANGED <<model, page>>
    /\ UNCHANGED <<file, fitted, active, cache, loadCount, runs, arg, pressed,
                   slider, inp, row, invoked, raised, errText, before>>

\* Mutant of LoadBody: the None of a missing file is returned but not cached.
LoadBodyForgetsNone(s, p) ==
    /\ loadCount' = Upd(loadCount, p, loadCount[p] + 1)
    /\ lock' = Upd(lock, p, {})
    /\ CASE file[p] = "valid" ->
              /\ cache' = Upd(cache, p, Entry(Handle(p, loadCount[p] + 1)))
              /\ model' = Upd(model, s, Handle(p, loadCount[p] + 1))
              /\ pc' = Upd(pc, s, "sidebar")
              /\ UNCHANGED <<page, raised>>
         [] file[p] = "missing" ->
              /\ model' = Upd(model, s, None)
              /\ Show(s, {"load_error"})
              /\ pc' = Upd(pc, s, "sidebar")
              /\ UNCHANGED <<cache, raised>>
         [] file[p] = "corrupt" ->
              /\ Uncaught(s, "load", "UnpicklingError")
              /\ UNCHANGED <<cache, model>>

\* The body of load_model, lines 20-25, run by the holder of the lock:
\*   joblib.load succeeds         -> the model is returned and cached
\*   FileNotFoundError            -> st.error, None is returned and cached
\*   any other exception          -> not caught: it leaves load_model and the
\*                                   script run, and nothing is cached
LoadBody(s, p) ==
    /\ loadCount' = Upd(loadCount, p, loadCount[p] + 1)
    /\ lock' = Upd(lock, p, {})
    /\ CASE file[p] = "valid" ->
              /\ cache' = Upd(cache, p, Entry(Handle(p, loadCount[p] + 1)))
              /\ model' = Upd(model, s, Handle(p, loadCount[p] + 1))
              /\ pc' = Upd(pc, s, "sidebar")
              /\ UNCHANGED <<page, raised>>
         [] file[p] = "missing" ->
              /\ cache' = Upd(cache, p, Entry(None))
              /\ model' = Upd(model, s, None)
              /\ Show(s, {"load_error"})
              /\ pc' = Upd(pc, s, "sidebar")
              /\ UNCHANGED raised
         [] file[p] = "corrupt" ->
              /\ Uncaught(s, "load", "UnpicklingError")
              /\ UNCHANGED <<cache, model>>

JoblibLoad(s) ==
    /\ s \in active
    /\ pc[s] = "locked"
    /\ LoadBody(s, arg[s])
    /\ UNCHANGED <<file, fitted, active, runs, arg, pressed, slider, inp, row,
                   invoked, errText, before>>

-----------------------------------------------------------------------------
(* Sidebar, lines 31-66 *)

\* Mutant of Sidebar: the sliders are created anew in every run, so each run
\* starts them from their defaults again.
SidebarResets(s) ==
    /\ s \in active
    /\ pc[s] = "sidebar"
    /\ slider' = Upd(slider, s, SliderDefaults)
    /\ inp' = Upd(inp, s, SliderDefaults)
    /\ Show(s, {"sidebar"})
    /\ pc' = Upd(pc, s, "branch")
    /\ UNCHANGED <<file, fitted, active, cache, lock, loadCount, runs, arg, pressed,
                   model, row, invoked, raised, errText, before>>

\* Each st.slider returns the widget's current value.
Sidebar(s) ==
    /\ s \in active
    /\ pc[s] = "sidebar"
    /\ inp' = Upd(inp, s, slider[s])
    /\ Show(s, {"sidebar"})
    /\ pc' = Upd(pc, s, "branch")
    /\ UNCHANGED <<file, fitted, active, cache, lock, loadCount, runs, arg, pressed,
                   slider, model, row, invoked, raised, errText, before>>

-----------------------------------------------------------------------------
(* Prediction logic, lines 88-108, and the closing section, lines 110-126 *)

\* Lines 110-126: the divider and the expander end every run that gets there.
Footer == {"footer"}

\* Mutant of Branch: the prediction block is entered on every run with a
\* loaded model, whether or not the button was pressed.
BranchLive(s) ==
    /\ s \in active
    /\ pc[s] = "branch"
    /\ IF model[s] # None
          THEN /\ Show(s, {"button"})
               /\ pc' = Upd(pc, s, "build")
          ELSE /\ Show(s, {"warning"} \cup Footer)
               /\ pc' = Upd(pc, s, "idle")
    /\ UNCHANGED <<file, fitted, active, cache, lock, loadCount, runs, arg, pressed,
                   slider, model, inp, row, invoked, raised, errText, before>>

\* Lines 88-90 and 107-108.
Branch(s) ==
    /\ s \in active
    /\ pc[s] = "branch"
    /\ IF model[s] # None
          THEN IF pressed[s]
                  THEN /\ Show(s, {"button"})
                       /\ pc' = Upd(pc, s, "build")
                  ELSE /\ Show(s, {"button"} \cup Footer)
                       /\ pc' = Upd(pc, s, "idle")
          ELSE /\ Show(s, {"warning"} \cup Footer)
               /\ pc' = Upd(pc, s, "idle")
    /\ UNCHANGED <<file, fitted, active, cache, lock, loadCount, runs, arg, pressed,
                   slider, model, inp, row, invoked, raised, errText, before>>

\* Mutant of MakeRow: air and amina change places under unchanged labels.
MakeRowSwapped(v) == [vals |-> <<v.iron, v.amina, v.air>>, cols |-> Columns]

\* Lines 93-96: one row [iron, air, amina] under the three column labels.
MakeRow(v) == [vals |-> <<v.iron, v.air, v.amina>>, cols |-> Columns]

\* Lines 93-96 stand before the try statement: an exception raised while the
\* frame is built (ok = FALSE) is not caught by the handler of line 105.
BuildRow(s) ==
    /\ s \in active
    /\ pc[s] = "build"
    /\ \E ok \in BOOLEAN :
          IF ok
             THEN /\ row' = Upd(row, s, MakeRow(inp[s]))
                  /\ pc' = Upd(pc, s, "predict")
                  /\ UNCHANGED <<raised, page>>
             ELSE /\ Uncaught(s, "build", "MemoryError")
                  /\ UNCHANGED row
    /\ UNCHANGED <<file, fitted, active, cache, lock, loadCount, runs, arg, pressed,
                   slider, model, inp, invoked, errText, before>>

\* model.predict on a frame r: the fitted model rejects a frame whose columns
\* are not the ones it was trained on; otherwise it behaves as `fitted` says.
ModelPredict(r) ==
    IF r.cols # Columns \/ Len(r.vals) # Len(Columns)
       THEN [raises |-> "ValueError", formattable |-> FALSE]
       ELSE CASE fitted = "ok" -> [raises |-> "", formattable |-> TRUE]
              [] fitted = "raises" -> [raises |-> "ValueError", formattable |-> FALSE]
              [] fitted = "badshape" -> [raises |-> "", formattable |-> FALSE]

\* Mutant of ExceptHandler: the handler does not match the exception, which
\* leaves the try statement and the script run.
ExceptHandlerMisses(s, at, e) ==
    /\ Uncaught(s, at, e)
    /\ UNCHANGED errText

\* Lines 105-106: the handler shows the exception's text; the script goes on
\* to the closing section.
ExceptHandler(s, at, e) ==
    /\ raised' = Upd(raised, s, Exc(at, e))
    /\ errText' = Upd(errText, s, e)
    /\ Show(s, {"pred_error"} \cup Footer)
    /\ pc' = Upd(pc, s, "idle")

\* Lines 99-101: the call of model.predict inside the try, then the subheader.
Predict(s) ==
    /\ s \in active
    /\ pc[s] = "predict"
    /\ invoked' = Upd(invoked, s, TRUE)
    /\ IF ModelPredict(row[s]).raises # ""
          THEN ExceptHandler(s, "predict", ModelPredict(row[s]).raises)
          ELSE /\ Show(s, {"result_header"})
               /\ pc' = Upd(pc, s, "format")
               /\ UNCHANGED <<raised, errText>>
    /\ UNCHANGED <<file, fitted, active, cache, lock, loadCount, runs, arg, pressed,
                   slider, model, inp, row, before>>

\* Lines 103-104, still inside the try: `prediction_value[0]:.2f` raises a
\* TypeError on an output that is not a sequence of floats.
ShowResult(s) ==
    /\ s \in active
    /\ pc[s] = "format"
    /\ IF ModelPredict(row[s]).formattable
          THEN /\ Show(s, {"result", "info"} \cup Footer)
               /\ pc' = Upd(pc, s, "idle")
               /\ UNCHANGED <<raised, errText>>
          ELSE ExceptHandler(s, "format", "TypeError")
    /\ UNCHANGED <<file, fitted, active, cache, lock, loadCount, runs, arg, pressed,
                   slider, model, inp, row, invoked, before>>

-----------------------------------------------------------------------------
(* Specifications *)

\* Lines 17-28, then lines 31-90 and 107-126.
LoadAndRender(s) ==
    \/ CacheLookup(s)
    \/ AcquireLock(s)
    \/ JoblibLoad(s)
    \/ Sidebar(s)
    \/ Branch(s)

Script(s) ==
    \/ LoadAndRender(s)
    \/ BuildRow(s)
    \/ Predict(s)
    \/ ShowResult(s)

\* One browser session, every user event.
Next ==
    \E s \in Sessions :
        \/ OpenPage(s, MaxRuns)
        \/ Rerun(s, MaxRuns)
        \/ MoveSlider(s, MaxRuns)
        \/ PressButton(s, MaxRuns)
        \/ Script(s)
        \/ FileAppears

Spec == Init /\ [][Next]_vars

\* A script run is executed by its own thread and goes on to its end: a step
\* of the script that stays possible is eventually taken.  User events are
\* under no such obligation.
FairSpec == Spec /\ \A s \in Sessions : WF_vars(Script(s))

\* Two browser sessions whose script runs interleave step by step; the
\* sliders stay where they are.
NextConc ==
    \E s \in Sessions :
        \/ OpenPage(s, MaxConcRuns)
        \/ Rerun(s, MaxConcRuns)
        \/ PressButton(s, MaxConcRuns)
        \/ Script(s)
        \/ FileAppears

SpecConc == InitConc /\ [][NextConc]_vars

\* load_model called with several paths over artifacts that stay as they are;
\* no run is started by the button, so every run ends at line 90 or 108.
NextPaths ==
    \E s \in Sessions :
        \/ RunWithPath(s, MaxPathRuns)
        \/ LoadAndRender(s)

SpecPaths == InitPaths /\ [][NextPaths]_vars

-----------------------------------------------------------------------------
(* Properties *)

RunOver(s) == pc[s] = "idle" /\ runs[s] > 0

\* C1: load_model(p) deserializes the artifact at most once for every sequence
\* of script runs of the process: the load counter of p never exceeds 1, and
\* once a value is cached the counter is exactly 1.
C1_LoadedAtMostOnce ==
    \A p \in Paths :
        /\ loadCount[p] <= 1
        /\ (cache[p].hit => loadCount[p] = 1)

\* C2: load_model never lets a fault escape: when the artifact is missing or
\* cannot be deserialized, a finished run holds model = None (the load-error
\* outcome), shows no uncaught exception and has rendered the rest of the page.
C2_NoLoadFaultEscapes ==
    \A s \in Sessions :
        (RunOver(s) /\ file[ModelPath] # "valid") =>
            /\ model[s] = None
            /\ "uncaught" \notin page[s]
            /\ {"sidebar", "footer"} \subseteq page[s]

\* C3 (as claimed): every exception raised while the row is built or while
\* predict is called is caught and shown as a prediction error carrying the
\* cause text; none escapes the prediction block.
C3_AnyPredictionFaultCaught ==
    \A s \in Sessions :
        raised[s].at \in {"build", "predict", "format"} =>
            /\ "pred_error" \in page[s]
            /\ errText[s] = raised[s].exc
            /\ "uncaught" \notin page[s]

\* C3 (amended): every exception raised by model.predict or while its result
\* is rendered (lines 100-104) is caught and shown as a prediction error
\* carrying the cause text, and the run goes on to the end of the script; an
\* exception raised while the row is built (lines 93-96) is outside the try:
\* it is not shown as a prediction error and ends the run uncaught.
C3_TryBlockFaultCaught ==
    \A s \in Sessions :
        /\ raised[s].at \in {"predict", "format"} =>
              /\ "pred_error" \in page[s]
              /\ errText[s] = raised[s].exc
              /\ "uncaught" \notin page[s]
              /\ Footer \subseteq page[s]
              /\ pc[s] = "idle"
        /\ raised[s].at = "build" =>
              /\ "pred_error" \notin page[s]
              /\ "uncaught" \in page[s]
              /\ ~invoked[s]

C3_Witness ==
    \E s \in Sessions :
        /\ raised[s] = Exc("predict", "ValueError")
        /\ "pred_error" \in page[s]
        /\ errText[s] = "ValueError"

\* C4: whenever a finished run holds no successfully loaded model, inference
\* was not invoked in it and it shows the 'model could not be loaded' warning,
\* not a result and not a crash.
C4_NotLoadedWarns ==
    \A s \in Sessions :
        (RunOver(s) /\ model[s].kind # "handle") =>
            /\ ~invoked[s]
            /\ "warning" \in page[s]
            /\ "result" \notin page[s]
            /\ "uncaught" \notin page[s]

\* C5: inference (Predicting: the call of model.predict and the rendering of
\* its outcome) happens only in a run started by the submit button, never in a
\* run started by a slider move or a plain rerun; and a run that invoked
\* inference ends showing exactly one of the result and the prediction error,
\* while a run that did not invoke it shows neither; and every Predicting
\* state leads to the end of the run (Idle) with exactly one of the two shown.
C5_Cycle ==
    \A s \in Sessions :
        /\ (invoked[s] \/ pc[s] \in {"build", "predict", "format"}) => pressed[s]
        /\ pc[s] \in {"predict", "format"} =>
              ("result" \notin page[s] /\ "pred_error" \notin page[s])
        /\ (RunOver(s) /\ invoked[s]) =>
              (("result" \in page[s]) # ("pred_error" \in page[s]))
        /\ ~invoked[s] =>
              ("result" \notin page[s] /\ "pred_error" \notin page[s])

C5_SubmitCycle ==
    /\ []C5_Cycle
    /\ \A s \in Sessions :
          (pc[s] = "predict") ~>
              (RunOver(s) /\ (("result" \in page[s]) # ("pred_error" \in page[s])))

C5_Witness ==
    \E s \in Sessions :
        /\ RunOver(s)
        /\ invoked[s]
        /\ "result" \in page[s]
        /\ slider[s] # SliderDefaults

\* An error of the kinds the script reports itself: st.error of load_model
\* (line 24) or st.error of the prediction block (line 106).
ErrorShown(s) == "load_error" \in page[s] \/ "pred_error" \in page[s]

\* C6 (as claimed): after a load error or a prediction error the slider values
\* and the cached handle are what they were, and the submit button is there to
\* be pressed again for another prediction attempt.
C6_RetryAfterAnyError ==
    \A s \in Sessions :
        (RunOver(s) /\ ErrorShown(s)) =>
            /\ slider[s] = before[s].slider
            /\ (before[s].cache.hit => cache[arg[s]] = before[s].cache)
            /\ "button" \in page[s]

\* C6 (amended): after a load error or a prediction error the slider values
\* and the cache entry are what they were when the run started.  After a
\* prediction error the submit button is rendered again over the same cached
\* handle, and every run started by pressing it attempts a prediction (predict
\* is invoked unless building the row raises).  After a load error no submit
\* button is rendered, only the warning: no prediction can be attempted.
C6_ErrorKeepsState ==
    \A s \in Sessions :
        /\ (RunOver(s) /\ ErrorShown(s)) =>
              /\ slider[s] = before[s].slider
              /\ (before[s].cache.hit => cache[arg[s]] = before[s].cache)
        /\ (RunOver(s) /\ "pred_error" \in page[s]) =>
              /\ "button" \in page[s]
              /\ cache[arg[s]] = Entry(model[s])
              /\ model[s].kind = "handle"
        /\ (RunOver(s) /\ pressed[s]) =>
              (invoked[s] \/ raised[s].at = "build")
        /\ (RunOver(s) /\ "load_error" \in page[s]) =>
              /\ "button" \notin page[s]
              /\ "warning" \in page[s]
              /\ ~pressed[s]

C6_Witness ==
    \E s \in Sessions :
        /\ RunOver(s)
        /\ "pred_error" \in page[s]
        /\ "button" \in page[s]
        /\ slider[s] # SliderDefaults
        /\ runs[s] >= 4

\* C7: the row passed to model.predict is exactly one row [iron, air, amine],
\* the three slider values in that order, under the labels "% Iron
\* Concentrate", "Flotation Column 01 Air Flow", "Amina Flow" in that order.
C7_RowIsSliderTriple ==
    \A s \in Sessions :
        (invoked[s] \/ pc[s] \in {"predict", "format"}) =>
            /\ row[s].vals = <<slider[s].iron, slider[s].air, slider[s].amina>>
            /\ row[s].cols = <<"% Iron Concentrate",
                               "Flotation Column 01 Air Flow",
                               "Amina Flow">>

C7_Witness ==
    \E s \in Sessions :
        /\ invoked[s]
        /\ slider[s].iron = IronMin
        /\ slider[s].amina = AminaMin + Step
        /\ row[s].vals = <<IronMin, AirDefault, AminaMin + Step>>

\* C8: when several sessions call load_model with the same path before any
\* load has completed, the artifact is deserialized exactly once under every
\* interleaving and every caller ends up with the same handle (stated for the
\* sessions' first runs, the calls that can meet an empty cache).
C8_SingleFlight ==
    (\A s \in active : runs[s] <= 1) =>
        /\ \A p \in Paths : loadCount[p] <= 1
        /\ \A s, u \in active :
              (model[s] # Unset /\ model[u] # Unset) => model[s] = model[u]

C10_NotFoundMemoized ==
    /\ \A s \in Sessions :
          /\ model[s] = None =>
                /\ cache[arg[s]] = Entry(None)
                /\ loadCount[arg[s]] = 1
          /\ (runs[s] > 0 /\ before[s].cache = Entry(None)) =>
                /\ cache[arg[s]] = Entry(None)
                /\ loadCount[arg[s]] = 1
                /\ pc[s] \notin {"wait", "locked"}
                /\ (pc[s] # "load" => model[s] = None)
    /\ cache[ModelPath] = Entry(None) =>
          \A s \in Sessions :
              /\ "button" \notin page[s]
              /\ ~pressed[s]
              /\ ~invoked[s]
              /\ pc[s] \notin {"build", "predict", "format"}

C10_Witness ==
    \E s \in Sessions :
        /\ file[ModelPath] = "valid"
        /\ before[s].cache = Entry(None)
        /\ RunOver(s)
        /\ model[s] = None
        /\ "warning" \in page[s]
        /\ runs[s] >= 3

=============================================================================
